---------------------------- MODULE Spec2Model ----------------------------
(***************************************************************************)
(* A model of the research-assistant repository:                           *)
(*   research_agent.py       the agent's tool functions, the connection    *)
(*                           retry loop of create_coralized_agent          *)
(*   research_mcp_server.py  the MCP tool catalog, call_tool and handlers  *)
(*                                                                         *)
(* Python strings are modelled as sequences of one-character strings, so   *)
(* that lower(), replace() and the substring test are computed character   *)
(* by character.  Python's None is the model value None.                   *)
(***************************************************************************)
EXTENDS Integers, Sequences, FiniteSets, TLC

VARIABLES
    \* ---- create_coralized_agent (research_agent.py) ----
    env_url,        \* os.getenv("CORAL_SSE_URL") as found in the environment
    coral_url,      \* the local coral_url
    pc,             \* position in create_coralized_agent
    attempt,        \* the loop variable of `for attempt in range(max_retries)`
    all_tools,      \* the list all_tools (tool names, in list order)
    coral_client,   \* the local coral_client: None or Client
    prints,         \* the messages printed so far, oldest first
    events,         \* history: every handshake attempt and every sleep, in order
    ret,            \* the returned tuple (executor's tools, coral_client); <<>>
                    \* until create_coralized_agent returns
    waited          \* the seconds spent in asyncio.sleep so far

VARIABLES
    \* ---- the tools (research_agent.py, research_mcp_server.py) ----
    log_file,       \* the file competitor_tracking.json
    reports,        \* the report files written so far (their names)
    clock,          \* datetime.now(), as a tick that advances with every call
    last,           \* the last tool invocation: who called what, the
                    \* collaborator's outcome, the result, whether it raised
    log_before,     \* history: log_file as the last invocation found it
    prior,          \* history: log_file as the first invocation found it
    logged,         \* history: the entries of the log calls that confirmed
    log_failed,     \* history: some log call did not confirm
    budget          \* invocations the run may still make

VARIABLES
    \* ---- two processes logging at once, one per entry point ----
    wpc,            \* each writer's position in its read-modify-write
    wentry,         \* each writer's local log_entry
    wlogs,          \* each writer's local logs
    wresult,        \* each writer's returned text
    confirmed,      \* history: the entries of the confirmed calls, in the
                    \* order their json.dump ran
    saw,            \* history: how many dumps had run when a writer read
    stale           \* history: some writer dumped a list it had read before
                    \* another writer's dump

connvars == <<env_url, coral_url, pc, attempt, all_tools, coral_client,
              prints, events, ret, waited>>

toolvars == <<log_file, reports, clock, last, log_before, prior, logged,
              log_failed, budget>>

racevars == <<wpc, wentry, wlogs, wresult, confirmed, saw, stale>>

\* The interactive session of main (research_agent.py 371-435).
VARIABLES
    mpc,            \* where main is: "idle" (create_coralized_agent has not
                    \* returned), "input", "invoke", "cleanup", "exited"
    main_client,    \* main's local coral_client
    chat_history,   \* the messages kept for the next turns
    user_input,     \* the stripped line of the current turn
    said,           \* the last thing main printed
    answered,       \* how many turns the agent has answered
    history_before, \* chat_history as it was when the current turn began
    typed,          \* the line the last input() returned, before strip()
    raised,         \* the last executor.ainvoke raised an Exception
    interrupted,    \* a KeyboardInterrupt reached main
    closed          \* main called coral_client.__aexit__

mainvars == <<mpc, main_client, chat_history, user_input, said, answered,
              history_before, typed, raised, interrupted, closed>>

vars == <<connvars, toolvars, racevars, mainvars>>

\* Python's None, kept apart from every string (a string is a sequence of
\* one-character strings).
None == <<"None">>

\* The object MultiServerMCPClient(...) constructs.
Client == <<"MultiServerMCPClient">>

(***************************************************************************)
(* Bounds of the model                                                     *)
(***************************************************************************)
MaxRemoteTools == 2     \* longest tool catalog the endpoint advertises
MaxCalls == 1           \* invocations in one run over all the tools
MaxLogCalls == 2        \* invocations in one run over the log tools
MaxPrior == 1           \* entries in the log file a run starts from
MaxRaceCalls == 2       \* log calls the two concurrent writers make in all
MaxLimit == 2           \* largest `limit` passed to get_competitor_logs
MaxTurns == 11          \* turns of one session the agent answers

(***************************************************************************)
(* Sequence helpers                                                        *)
(***************************************************************************)
Range(s) == {s[i] : i \in DOMAIN s}

SeqsUpTo(S, n) == UNION {[1..k -> S] : k \in 0..n}

NoDuplicates(s) == \A i, j \in DOMAIN s : i # j => s[i] # s[j]

(***************************************************************************)
(* Python strings and slices                                               *)
(***************************************************************************)
Min(a, b) == IF a <= b THEN a ELSE b
Max(a, b) == IF a >= b THEN a ELSE b

\* str.lower(), over the model's alphabet.
LowerChar(c) ==
    IF c = "A" THEN "a" ELSE IF c = "B" THEN "b" ELSE IF c = "Q" THEN "q" ELSE c
Lower(s) == [i \in 1..Len(s) |-> LowerChar(s[i])]

\* str.replace(old, new) for one-character old and new.
Replace(s, old, new) == [i \in 1..Len(s) |-> IF s[i] = old THEN new ELSE s[i]]

\* sub in s
Contains(sub, s) ==
    \E i \in 0..(Len(s) - Len(sub)) : SubSeq(s, i + 1, i + Len(sub)) = sub

\* s[:n] for n >= 0
Prefix(s, n) == SubSeq(s, 1, Min(n, Len(s)))

\* s[start:] for any integer start: a negative start counts from the end, and
\* both are clamped to the sequence.
SliceFrom(s, start) ==
    LET b == IF start < 0 THEN Max(Len(s) + start, 0) ELSE Min(start, Len(s))
    IN  SubSeq(s, b + 1, Len(s))

\* dict.get(key, default)
Get(d, key, default) == IF key \in DOMAIN d THEN d[key] ELSE default

(***************************************************************************)
(* The outcome of running a block of Python: it returned a value or raised *)
(* an exception, and left the log file and the report files as given.      *)
(***************************************************************************)
Text(kind, parts) == [kind |-> kind, parts |-> parts]

Returns(value, file, files) ==
    [raised |-> FALSE, value |-> value, file |-> file, files |-> files]

Raises(exc, file, files) ==
    [raised |-> TRUE, value |-> Text(exc, <<>>), file |-> file, files |-> files]

\* try: body / except Exception as e: return <message with str(e)>
Catch_Reraise(body, message) == body
Catch(body, message) ==
    IF body.raised
    THEN Returns(Text(message, <<body.value.kind>>), body.file, body.files)
    ELSE body

(***************************************************************************)
(* competitor_tracking.json: absent, or a text that is a JSON array of     *)
(* objects (each object written as its key/value pairs in order), or a     *)
(* text json.load rejects (truncated by an interrupted write, or foreign). *)
(***************************************************************************)
Absent == [exists |-> FALSE, valid |-> FALSE, items |-> <<>>, size |-> 0]

\* A file json.load rejects, of the given length; open(log_file, 'w') leaves
\* one of length 0.
Garbled(size) == [exists |-> TRUE, valid |-> FALSE, items |-> <<>>, size |-> size]
Truncated == Garbled(0)

KeyOrder == <<"timestamp", "competitor", "activity", "source">>

\* json.dump of one dict: its items, in the order the dict holds its keys.
JsonDumpObj(d) ==
    LET Has(k) == k \in DOMAIN d
        keys == SelectSeq(KeyOrder, Has)
    IN  [i \in 1..Len(keys) |-> <<keys[i], d[keys[i]]>>]

\* json.load of one object: a later pair of the same key wins.
JsonLoadObj(pairs) ==
    [k \in {pairs[i][1] : i \in 1..Len(pairs)} |->
        LET last_i == CHOOSE i \in 1..Len(pairs) :
                        /\ pairs[i][1] = k
                        /\ \A j \in 1..Len(pairs) : pairs[j][1] = k => j <= i
        IN  pairs[last_i][2]]

\* The length of the text of a JSON array: brackets, and for every pair its
\* value with the quotes and separators around it.
RECURSIVE PairsLen(_)
PairsLen(pairs) ==
    IF pairs = <<>> THEN 2
    ELSE 3 + Len(Head(pairs)[2]) + PairsLen(Tail(pairs))

RECURSIVE TextLen(_)
TextLen(items) ==
    IF items = <<>> THEN 2 ELSE PairsLen(Head(items)) + TextLen(Tail(items))

JsonText(items) ==
    [exists |-> TRUE, valid |-> TRUE, items |-> items, size |-> TextLen(items)]

\* json.dump(logs, f, indent=2) into a freshly truncated file.
JsonDump_DropsOldest(logs) ==
    JsonText([i \in 1..(Len(logs) - 1) |-> JsonDumpObj(logs[i + 1])])
JsonDump(logs) == JsonText([i \in 1..Len(logs) |-> JsonDumpObj(logs[i])])

\* json.load(f) of a file json.load accepts.
JsonLoad(file) == [i \in 1..Len(file.items) |-> JsonLoadObj(file.items[i])]

\* The array a log file holds; no file reads as no entries.
Stored(file) == IF file.exists THEN JsonLoad(file) ELSE <<>>

\* datetime.now().isoformat(): the date, "T", and the time of day (one tick).
Ticks == <<"0", "1", "2", "3", "4", "5", "6", "7", "8", "9">>
IsoFormat(now) ==
    <<"2", "0", "2", "6", "-", "1", "1", "-", "0", "6", "T", Ticks[now + 1]>>

LogEntry(now, competitor, activity, source) ==
    [timestamp |-> IsoFormat(now), competitor |-> competitor,
     activity |-> activity, source |-> source]

(***************************************************************************)
(* What the external collaborators may do during one invocation            *)
(***************************************************************************)
SearchFaults == {"none", "import_error", "provider_raises", "provider_empty"}
FetchFaults == {"none", "get_raises", "status_raises"}
LogFaults == {"none", "read_raises", "open_w_raises", "dump_raises"}
ReportFaults == {"none", "open_w_raises", "write_raises"}
QueryFaults == {"none", "read_raises"}

(***************************************************************************)
(* The read-modify-write of the log, the same in track_competitor          *)
(* (research_agent.py 132-141) and handle_track_competitor                 *)
(* (research_mcp_server.py 230-239).  open(log_file, 'w') truncates the    *)
(* file before json.dump writes it.                                        *)
(***************************************************************************)
\* logs.append(log_entry)
AppendEntry_Dropped(logs, log_entry) == logs
AppendEntry(logs, log_entry) == Append(logs, log_entry)

AppendToLog(file, files, log_entry, fault) ==
    IF file.exists /\ fault = "read_raises" THEN Raises("OSError", file, files)
    ELSE IF file.exists /\ ~file.valid
    THEN Raises("JSONDecodeError", file, files)
    ELSE IF fault = "open_w_raises" THEN Raises("OSError", file, files)
    ELSE IF fault = "dump_raises" THEN Raises("OSError", Truncated, files)
    ELSE LET logs == IF file.exists THEN JsonLoad(file) ELSE <<>>
         IN  Returns(None, JsonDump(AppendEntry(logs, log_entry)), files)

(***************************************************************************)
(* The agent's tool functions (research_agent.py)                          *)
(***************************************************************************)
AgentActivityPreview == 50
ReportSummaryLength == 500
SummaryPrefixLength == 200

\* Lines 45-64.
web_search(query, num_results, file, files, fault) ==
    LET body ==
          IF fault = "import_error" THEN Raises("ImportError", file, files)
          ELSE IF fault = "provider_raises"
          THEN Raises("Exception", file, files)
          ELSE IF fault = "provider_empty"
          THEN Returns(Text("No results found for the query.", <<>>), file, files)
          ELSE Returns(Text("results", <<query>>), file, files)
    IN  IF body.raised /\ body.value.kind = "ImportError"
        THEN Returns(Text("Error: duckduckgo-search not installed", <<>>),
                     file, files)
        ELSE Catch(body, "Search error: ")

\* Lines 78-104.
fetch_url(url, file, files, fault) ==
    Catch(IF fault \in {"get_raises", "status_raises"}
          THEN Raises("RequestException", file, files)
          ELSE Returns(Text("Content from ", <<url>>), file, files),
          "Error fetching URL: ")

\* Lines 120-146.
track_competitor(competitor_name, activity, source, file, files, now, fault) ==
    LET log_entry == LogEntry(now, competitor_name, activity, source)
        written == AppendToLog(file, files, log_entry, fault)
    IN  Catch(IF written.raised THEN written
              ELSE Returns(Text("Logged activity for ",
                                <<competitor_name,
                                  Prefix(activity, AgentActivityPreview)>>),
                           written.file, written.files),
              "Error logging activity: ")

\* topic.replace(' ', '_').lower(), line 201.
Slug(topic) == Lower(Replace(topic, " ", "_"))

\* format_type if format_type != 'markdown' else 'md', line 201.
Extension(format_type) == IF format_type # "markdown" THEN format_type ELSE "md"

\* Line 201; the strftime stamp is one tick.
ReportFilename(topic, format_type, now) ==
    <<"report_">> \o Slug(topic) \o <<"_", Ticks[now + 1], ".">>
        \o <<Extension(format_type)>>

\* Lines 162-198.
RenderReport(topic, findings, format_type) ==
    IF format_type = "markdown"
    THEN Text("# Research Report: ",
              <<topic, Prefix(findings, ReportSummaryLength), findings>>)
    ELSE IF format_type = "json"
    THEN Text("json", <<topic, Prefix(findings, ReportSummaryLength), findings>>)
    ELSE Text("RESEARCH REPORT: ", <<topic, findings>>)

\* Lines 162-208.  open(filename, 'w') creates the file; a write that raises
\* leaves it behind.
generate_report(topic, findings, format_type, file, files, now, fault) ==
    LET report == RenderReport(topic, findings, format_type)
        filename == ReportFilename(topic, format_type, now)
        saved ==
          IF fault = "open_w_raises" THEN Raises("OSError", file, files)
          ELSE IF fault = "write_raises"
          THEN Raises("OSError", file, files \cup {filename})
          ELSE Returns(Text("Report saved to ", <<filename, report.kind>>),
                       file, files \cup {filename})
    IN  IF saved.raised
        THEN Returns(Text("Error saving report: ",
                          <<saved.value.kind, report.kind>>),
                     saved.file, saved.files)
        ELSE saved

\* Lines 225-231.
summarize_paper(paper_text, max_length, file, files) ==
    Returns(Text("Paper Summary",
                 <<Prefix(paper_text, SummaryPrefixLength)>>), file, files)

(***************************************************************************)
(* The MCP server's handlers (research_mcp_server.py)                      *)
(***************************************************************************)
ServerActivityPreview == 60
LogLinePreview == 80
DateLength == 10
DefaultLimit == 50
DefaultNumResults == 5

\* Lines 64-86 of list_tools: the parameters the catalog declares required.
Required(name) ==
    IF name = "web_search" THEN {"query"}
    ELSE IF name = "fetch_url" THEN {"url"}
    ELSE IF name = "track_competitor" THEN {"competitor_name", "activity"}
    ELSE IF name = "generate_report" THEN {"topic", "findings"}
    ELSE {}

\* Lines 157-176.
handle_web_search(arguments, file, files, fault) ==
    Catch(IF fault \in {"import_error", "provider_raises"}
          THEN Raises("Exception", file, files)
          ELSE IF fault = "provider_empty"
          THEN Returns(Text("No results found.", <<>>), file, files)
          ELSE Returns(Text("results", <<Get(arguments, "query", <<>>)>>),
                       file, files),
          "Search error: ")

\* Lines 181-211.
handle_fetch_url(arguments, file, files, fault) ==
    Catch(IF fault \in {"get_raises", "status_raises"}
          THEN Raises("RequestException", file, files)
          ELSE Returns(Text("Content from ", <<Get(arguments, "url", <<>>)>>),
                       file, files),
          "Error: ")

\* Lines 216-247.
handle_track_competitor(arguments, file, files, now, fault) ==
    LET competitor == Get(arguments, "competitor_name", <<>>)
        activity == Get(arguments, "activity", <<>>)
        source == Get(arguments, "source", <<>>)
        log_entry == LogEntry(now, competitor, activity, source)
        written == AppendToLog(file, files, log_entry, fault)
    IN  Catch(IF written.raised THEN written
              ELSE Returns(Text("Logged activity for ",
                                <<competitor,
                                  Prefix(activity, ServerActivityPreview)>>),
                           written.file, written.files),
              "Error: ")

\* Lines 252-289: nothing is written to disk.
handle_generate_report(arguments, file, files) ==
    LET topic == Get(arguments, "topic", <<>>)
        findings == Get(arguments, "findings", <<>>)
        format_type == Get(arguments, "format_type", "markdown")
    IN  Catch(Returns(IF format_type = "markdown"
                      THEN Text("# Research Report: ", <<topic, findings>>)
                      ELSE IF format_type = "json"
                      THEN Text("json", <<topic, findings>>)
                      ELSE Text("RESEARCH REPORT: ", <<topic, findings>>),
                      file, files),
              "Error: ")

\* Line 307: the entries whose competitor contains the filter, both lowered.
FilterLogs(logs, competitor_filter) ==
    LET Match(l) ==
          Contains(Lower(competitor_filter), Lower(Get(l, "competitor", <<>>)))
    IN  SelectSeq(logs, Match)

\* Line 309: logs[-limit:]
MostRecent(logs, limit) == SliceFrom(logs, -limit)

\* Line 316.
FormatLog(log) ==
    <<Prefix(log["timestamp"], DateLength), log["competitor"],
      Prefix(log["activity"], LogLinePreview)>>

\* Lines 294-321.
handle_get_logs(arguments, file, files, fault) ==
    LET competitor_filter == Get(arguments, "competitor", <<>>)
        limit == Get(arguments, "limit", DefaultLimit)
        body ==
          IF ~file.exists THEN Returns(Text("No logs found.", <<>>), file, files)
          ELSE IF fault = "read_raises" THEN Raises("OSError", file, files)
          ELSE IF ~file.valid THEN Raises("JSONDecodeError", file, files)
          ELSE LET all == JsonLoad(file)
                   matching == IF competitor_filter # <<>>
                               THEN FilterLogs(all, competitor_filter)
                               ELSE all
                   logs == MostRecent(matching, limit)
               IN  IF logs = <<>>
                   THEN Returns(Text("No matching logs found.", <<>>),
                                file, files)
                   ELSE IF \E i \in 1..Len(logs) :
                             ~({"timestamp", "competitor", "activity"}
                                 \subseteq DOMAIN logs[i])
                   THEN Raises("KeyError", file, files)
                   ELSE Returns(Text("logs",
                                     [i \in 1..Len(logs) |-> FormatLog(logs[i])]),
                                file, files)
    IN  Catch(body, "Error: ")

\* Lines 132-152.
call_tool(name, arguments, file, files, now, fault) ==
    IF name = "web_search" THEN handle_web_search(arguments, file, files, fault)
    ELSE IF name = "fetch_url"
    THEN handle_fetch_url(arguments, file, files, fault)
    ELSE IF name = "track_competitor"
    THEN handle_track_competitor(arguments, file, files, now, fault)
    ELSE IF name = "generate_report"
    THEN handle_generate_report(arguments, file, files)
    ELSE IF name = "get_competitor_logs"
    THEN handle_get_logs(arguments, file, files, fault)
    ELSE Returns(Text("Unknown tool: ", <<name>>), file, files)

(***************************************************************************)
(* Tool invocations, one at a time                                         *)
(***************************************************************************)
Subjects == {<<"A", "b">>, <<"b">>}
Activities == {<<"x">>}
Sources == {<<"u">>}
Topics == {<<"A", " ", "b">>, <<".", ".", "/", "b">>, <<"a">>}
Findings == {<<"f">>}
Formats == {"markdown", "json", "text"}
Filters == {<<>>, <<"a">>, <<"B">>}
Limits == 0..MaxLimit

CatalogNames ==
    {"web_search", "fetch_url", "track_competitor", "generate_report",
     "get_competitor_logs"}

\* The two processes that log: the agent (track_competitor) and the MCP
\* server (handle_track_competitor).
Writers == {"agent", "rpc"}

\* A keyword argument that is passed, or left out.
Arg(key, present, value) == IF present THEN key :> value ELSE <<>>

NoCall ==
    [via |-> "none", name |-> "none", args |-> <<>>, fault |-> "none",
     result |-> Text("none", <<>>), raised |-> FALSE]

\* The log files a run may find: none, one json.load rejects, or an array of
\* entries written earlier.
PriorEntries == {LogEntry(0, s, a, <<>>) : s \in Subjects, a \in Activities}
PriorFiles ==
    {Absent, Truncated} \cup {JsonDump(logs) : logs \in SeqsUpTo(PriorEntries, MaxPrior)}

RaceIdle ==
    /\ wpc = [w \in Writers |-> "idle"]
    /\ wentry = [w \in Writers |-> None]
    /\ wlogs = [w \in Writers |-> <<>>]
    /\ wresult = [w \in Writers |-> Text("none", <<>>)]
    /\ confirmed = <<>>
    /\ saw = [w \in Writers |-> 0]
    /\ stale = FALSE

ToolsIdle ==
    /\ log_file = Absent
    /\ reports = {}
    /\ clock = 0
    /\ last = NoCall
    /\ log_before = Absent
    /\ prior = Absent
    /\ logged = <<>>
    /\ log_failed = FALSE
    /\ budget = 0

ToolsStart(calls) ==
    /\ log_file \in PriorFiles
    /\ prior = log_file
    /\ log_before = log_file
    /\ reports = {}
    /\ clock = 1
    /\ last = NoCall
    /\ logged = <<>>
    /\ log_failed = FALSE
    /\ budget = calls

MainIdle ==
    /\ mpc = "idle"
    /\ main_client = None
    /\ chat_history = <<>>
    /\ user_input = <<>>
    /\ said = "none"
    /\ answered = 0
    /\ history_before = <<>>
    /\ typed = <<>>
    /\ raised = FALSE
    /\ interrupted = FALSE
    /\ closed = FALSE

ConnectIdle ==
    /\ env_url = None
    /\ coral_url = None
    /\ pc = "start"
    /\ attempt = 0
    /\ all_tools = <<>>
    /\ coral_client = None
    /\ prints = <<>>
    /\ events = <<>>
    /\ ret = <<>>
    /\ waited = 0

\* One invocation, from the call to the value the caller gets back.
Invoke(via, name, args, fault, out) ==
    /\ budget > 0
    /\ budget' = budget - 1
    /\ clock' = clock + 1
    /\ last' = [via |-> via, name |-> name, args |-> args, fault |-> fault,
                result |-> out.value, raised |-> out.raised]
    /\ log_before' = log_file
    /\ log_file' = out.file
    /\ reports' = out.files
    /\ UNCHANGED <<prior, connvars, racevars, mainvars>>

\* History of the log calls: what was passed, when the call confirmed.
RecordLogCall(competitor, activity, source, out) ==
    IF ~out.raised /\ out.value.kind = "Logged activity for "
    THEN /\ logged' = Append(logged, [competitor |-> competitor,
                                       activity |-> activity,
                                       source |-> source])
         /\ UNCHANGED log_failed
    ELSE /\ log_failed' = TRUE
         /\ UNCHANGED logged

AgentWebSearch ==
    \E fault \in SearchFaults :
        /\ Invoke("agent", "web_search", "query" :> <<"q">>, fault,
                  web_search(<<"q">>, DefaultNumResults, log_file, reports, fault))
        /\ UNCHANGED <<logged, log_failed>>

AgentFetchUrl ==
    \E fault \in FetchFaults :
        /\ Invoke("agent", "fetch_url", "url" :> <<"h">>, fault,
                  fetch_url(<<"h">>, log_file, reports, fault))
        /\ UNCHANGED <<logged, log_failed>>

AgentTrackCompetitor ==
    \E c \in Subjects, a \in Activities, s \in Sources, fault \in LogFaults :
        LET out == track_competitor(c, a, s, log_file, reports, clock, fault)
        IN  /\ Invoke("agent", "track_competitor",
                      "competitor_name" :> c @@ "activity" :> a @@ "source" :> s,
                      fault, out)
            /\ RecordLogCall(c, a, s, out)

AgentGenerateReport ==
    \E t \in Topics, f \in Findings, ft \in Formats, fault \in ReportFaults :
        /\ Invoke("agent", "generate_report",
                  "topic" :> t @@ "findings" :> f @@ "format_type" :> ft, fault,
                  generate_report(t, f, ft, log_file, reports, clock, fault))
        /\ UNCHANGED <<logged, log_failed>>

AgentSummarizePaper ==
    /\ Invoke("agent", "summarize_paper", "paper_text" :> <<"p">>, "none",
              summarize_paper(<<"p">>, ReportSummaryLength, log_file, reports))
    /\ UNCHANGED <<logged, log_failed>>

RpcWebSearch ==
    \E has_query \in BOOLEAN, fault \in SearchFaults :
        LET args == Arg("query", has_query, <<"q">>)
        IN  /\ Invoke("rpc", "web_search", args, fault,
                      call_tool("web_search", args, log_file, reports, clock, fault))
            /\ UNCHANGED <<logged, log_failed>>

RpcFetchUrl ==
    \E has_url \in BOOLEAN, fault \in FetchFaults :
        LET args == Arg("url", has_url, <<"h">>)
        IN  /\ Invoke("rpc", "fetch_url", args, fault,
                      call_tool("fetch_url", args, log_file, reports, clock, fault))
            /\ UNCHANGED <<logged, log_failed>>

RpcTrackCompetitor ==
    \E c \in Subjects \cup {None}, a \in Activities \cup {None},
       s \in {<<"u">>, None}, fault \in LogFaults :
        LET args == Arg("competitor_name", c # None, c)
                      @@ Arg("activity", a # None, a)
                      @@ Arg("source", s # None, s)
            out == call_tool("track_competitor", args, log_file, reports, clock,
                             fault)
        IN  /\ Invoke("rpc", "track_competitor", args, fault, out)
            /\ RecordLogCall(Get(args, "competitor_name", <<>>),
                             Get(args, "activity", <<>>),
                             Get(args, "source", <<>>), out)

RpcGenerateReport ==
    \E t \in Topics \cup {None}, f \in Findings, ft \in Formats \cup {"none"} :
        LET args == Arg("topic", t # None, t) @@ Arg("findings", TRUE, f)
                      @@ Arg("format_type", ft # "none", ft)
        IN  /\ Invoke("rpc", "generate_report", args, "none",
                      call_tool("generate_report", args, log_file, reports, clock,
                                "none"))
            /\ UNCHANGED <<logged, log_failed>>

RpcGetLogs ==
    \E flt \in Filters \cup {None}, has_limit \in BOOLEAN, fault \in QueryFaults :
      \E limit \in (IF has_limit THEN Limits ELSE {DefaultLimit}) :
        LET args == Arg("competitor", flt # None, flt)
                      @@ Arg("limit", has_limit, limit)
        IN  /\ Invoke("rpc", "get_competitor_logs", args, fault,
                      call_tool("get_competitor_logs", args, log_file, reports,
                                clock, fault))
            /\ UNCHANGED <<logged, log_failed>>

RpcUnknownTool ==
    /\ Invoke("rpc", "delete_logs", <<>>, "none",
              call_tool("delete_logs", <<>>, log_file, reports, clock, "none"))
    /\ UNCHANGED <<logged, log_failed>>

\* The log tools alone: log_activity from either entry point, and query_logs.
InitLog == ConnectIdle /\ RaceIdle /\ MainIdle /\ ToolsStart(MaxLogCalls)

NextLog ==
    \/ AgentTrackCompetitor
    \/ RpcTrackCompetitor
    \/ RpcGetLogs

SpecLog == InitLog /\ [][NextLog]_vars

\* Every tool, from either entry point.
InitTools == ConnectIdle /\ RaceIdle /\ MainIdle /\ ToolsStart(MaxCalls)

NextTools ==
    \/ AgentWebSearch
    \/ AgentFetchUrl
    \/ AgentTrackCompetitor
    \/ AgentGenerateReport
    \/ AgentSummarizePaper
    \/ RpcWebSearch
    \/ RpcFetchUrl
    \/ RpcTrackCompetitor
    \/ RpcGenerateReport
    \/ RpcGetLogs
    \/ RpcUnknownTool

SpecTools == InitTools /\ [][NextTools]_vars

(***************************************************************************)
(* Two processes logging at once.  Each runs the read-modify-write of      *)
(* track_competitor / handle_track_competitor; the steps of one process    *)
(* interleave with those of the other at every file operation.             *)
(***************************************************************************)
ErrorMessage(w) == IF w = "agent" THEN "Error logging activity: " ELSE "Error: "

ActivityPreview(w) ==
    IF w = "agent" THEN AgentActivityPreview ELSE ServerActivityPreview

InitRace ==
    /\ ConnectIdle
    /\ RaceIdle
    /\ MainIdle
    /\ ToolsStart(MaxRaceCalls)

\* research_agent.py 120-125, research_mcp_server.py 217-226: the call
\* starts and builds log_entry.
RaceBegin(w) ==
    /\ wpc[w] = "idle"
    /\ budget > 0
    /\ budget' = budget - 1
    /\ \E c \in Subjects, a \in Activities :
          wentry' = [wentry EXCEPT ![w] = LogEntry(clock, c, a, <<>>)]
    /\ clock' = clock + 1
    /\ wpc' = [wpc EXCEPT ![w] = "exists"]
    /\ wresult' = [wresult EXCEPT ![w] = Text("none", <<>>)]
    /\ UNCHANGED <<wlogs, confirmed, saw, stale, log_file, reports, last,
                   log_before, prior, logged, log_failed, connvars, mainvars>>

\* Lines 132 / 230: os.path.exists(log_file); without a file logs = [] and
\* the entry is appended (135-138 / 233-236).
RaceExists(w) ==
    /\ wpc[w] = "exists"
    /\ IF log_file.exists
       THEN /\ wpc' = [wpc EXCEPT ![w] = "read"]
            /\ UNCHANGED <<wlogs, saw>>
       ELSE /\ wpc' = [wpc EXCEPT ![w] = "open_w"]
            /\ wlogs' = [wlogs EXCEPT ![w] = AppendEntry(<<>>, wentry[w])]
            /\ saw' = [saw EXCEPT ![w] = Len(confirmed)]
    /\ UNCHANGED <<wentry, wresult, confirmed, stale, toolvars, connvars, mainvars>>

\* Lines 133-138 / 231-236: the file is read whole and parsed, the entry is
\* appended to the local list.  A text json.load rejects ends the call in the
\* except branch.
RaceRead(w) ==
    /\ wpc[w] = "read"
    /\ LET body == IF log_file.valid
                   THEN Returns(None, log_file, reports)
                   ELSE Raises("JSONDecodeError", log_file, reports)
           out == Catch(body, ErrorMessage(w))
       IN  IF body.raised
           THEN /\ wpc' = [wpc EXCEPT ![w] = "idle"]
                /\ wresult' = [wresult EXCEPT ![w] = out.value]
                /\ UNCHANGED <<wlogs, saw>>
           ELSE /\ wpc' = [wpc EXCEPT ![w] = "open_w"]
                /\ wlogs' = [wlogs EXCEPT ![w] =
                               AppendEntry(JsonLoad(log_file), wentry[w])]
                /\ saw' = [saw EXCEPT ![w] = Len(confirmed)]
                /\ UNCHANGED wresult
    /\ UNCHANGED <<wentry, confirmed, stale, toolvars, connvars, mainvars>>

\* Lines 140 / 238: open(log_file, 'w') truncates the file to length 0.
RaceOpenForWrite(w) ==
    /\ wpc[w] = "open_w"
    /\ log_file' = Truncated
    /\ wpc' = [wpc EXCEPT ![w] = "dump"]
    /\ UNCHANGED <<wentry, wlogs, wresult, confirmed, saw, stale, reports,
                   clock, last, log_before, prior, logged, log_failed, budget,
                   connvars, mainvars>>

\* What the file holds after `text` is written from offset 0 over `file`: a
\* longer text already there (written by the other process since this one
\* truncated the file) keeps its tail, and the mix is no JSON.
WriteOver(file, text) ==
    IF file.size > text.size THEN Garbled(file.size) ELSE text

\* Lines 141-143 / 239-244: json.dump writes the local list, the file is
\* closed and the confirmation is returned.
RaceDump(w) ==
    /\ wpc[w] = "dump"
    /\ log_file' = WriteOver(log_file, JsonDump(wlogs[w]))
    /\ confirmed' = Append(confirmed, wentry[w])
    /\ stale' = (stale \/ Len(confirmed) > saw[w])
    /\ wresult' = [wresult EXCEPT ![w] =
                     Text("Logged activity for ",
                          <<wentry[w]["competitor"],
                            Prefix(wentry[w]["activity"], ActivityPreview(w))>>)]
    /\ wpc' = [wpc EXCEPT ![w] = "idle"]
    /\ UNCHANGED <<wentry, wlogs, saw, reports, clock, last, log_before, prior,
                   logged, log_failed, budget, connvars, mainvars>>

NextRace ==
    \E w \in Writers :
        \/ RaceBegin(w)
        \/ RaceExists(w)
        \/ RaceRead(w)
        \/ RaceOpenForWrite(w)
        \/ RaceDump(w)

SpecRace == InitRace /\ [][NextRace]_vars

\* C5: the read-modify-write of the log is not atomic.  With two writers,
\* whenever the file holds an array, every confirmed entry is in it exactly
\* when no writer has dumped a list it had read before another writer's dump;
\* a writer that does so overwrites the other's entry, which stays lost (in
\* C5_Witness both calls have confirmed and one of the two entries is gone).
C5_LostExactlyOnStaleDump ==
    ((prior = Absent \/ prior.valid) /\ log_file.valid) =>
        ((\A i \in 1..Len(confirmed) :
              confirmed[i] \in Range(Stored(log_file))) <=> ~stale)

C5_Witness ==
    /\ wpc = [w \in Writers |-> "idle"]
    /\ wresult["agent"].kind = "Logged activity for "
    /\ wresult["rpc"].kind = "Logged activity for "
    /\ Len(confirmed) = 2
    /\ log_file.valid
    /\ Stored(log_file) = Stored(prior) \o <<confirmed[2]>>
    /\ confirmed[1] \notin Range(Stored(log_file))

(***************************************************************************)
(* Claims about the tools                                                  *)
(***************************************************************************)
\* The subject, activity and source of a stored entry.
Passed(entry) ==
    [competitor |-> entry["competitor"], activity |-> entry["activity"],
     source |-> entry["source"]]

\* C6: starting from a valid log file (or none), when every log call so far
\* has confirmed, the persisted array is the prior array followed by exactly
\* the entries of those calls in call order, each with the subject, activity
\* and source passed; no earlier entry is changed, dropped or reordered.
C6_SequentialAppendsInOrder ==
    ((prior = Absent \/ prior.valid) /\ ~log_failed) =>
        /\ log_file = Absent <=> (prior = Absent /\ logged = <<>>)
        /\ log_file # Absent => log_file.valid
        /\ Len(Stored(log_file)) = Len(Stored(prior)) + Len(logged)
        /\ SubSeq(Stored(log_file), 1, Len(Stored(prior))) = Stored(prior)
        /\ \A i \in 1..Len(logged) :
              Passed(Stored(log_file)[Len(Stored(prior)) + i]) = logged[i]

C6_Witness ==
    /\ Len(Stored(prior)) = 1
    /\ ~log_failed
    /\ Len(logged) = 2
    /\ logged[1] # logged[2]
    /\ Len(Stored(log_file)) = 3

\* The lines the last get_competitor_logs call returned.
ReturnedLines == IF last.result.kind = "logs" THEN last.result.parts ELSE <<>>

\* C7: for every persisted log, every filter and every limit >= 0,
\* get_competitor_logs returns the most recent `limit` entries among those
\* whose subject contains the filter case-insensitively, in insertion order:
\* min(limit, number of matches) entries, a suffix of the matching entries.
C7_MostRecentLimitEntries ==
    (/\ last.name = "get_competitor_logs"
     /\ last.fault = "none"
     /\ log_before.valid
     /\ "limit" \in DOMAIN last.args) =>
        LET matches == FilterLogs(Stored(log_before),
                                  Get(last.args, "competitor", <<>>))
            n == Min(last.args["limit"], Len(matches))
            expected == SubSeq(matches, Len(matches) - n + 1, Len(matches))
        IN  /\ Len(ReturnedLines) = n
            /\ ReturnedLines = [i \in 1..n |-> FormatLog(expected[i])]

\* The texts a caller can get back, as opposed to an exception's name.
IsResultText(result) ==
    result.kind \notin {"OSError", "JSONDecodeError", "KeyError", "ImportError",
                         "Exception", "RequestException"}

\* C8: whatever the collaborator does (the search provider, the HTTP fetch,
\* the log and report file I/O succeeding or raising), an invocation returns
\* a text and no exception escapes to the caller; an unregistered name over
\* RPC yields the 'Unknown tool' result.
C8_NoExceptionEscapes ==
    /\ ~last.raised
    /\ IsResultText(last.result)
    /\ (last.via = "rpc" /\ last.name \notin CatalogNames) =>
          last.result = Text("Unknown tool: ", <<last.name>>)
    /\ (last.via = "rpc" /\ last.name \in CatalogNames) =>
          last.result.kind # "Unknown tool: "

C8_Witness ==
    /\ last.via = "agent"
    /\ last.name = "track_competitor"
    /\ last.fault = "dump_raises"
    /\ last.result = Text("Error logging activity: ", <<"OSError">>)
    /\ log_file = Truncated

\* C9: a track_competitor call over RPC that leaves out a required parameter
\* returns a failure result and appends nothing to the persisted log.
C9_MissingRequiredIsRejected ==
    (/\ last.via = "rpc"
     /\ last.name = "track_competitor"
     /\ ~(Required("track_competitor") \subseteq DOMAIN last.args)) =>
        /\ last.result.kind = "Error: "
        /\ log_file = log_before

\* C10: the slug generate_report puts in the report filename is lowercase,
\* has no space, and has no unsafe character: no path separator and no '..',
\* so every report file is created in the working directory.
C10_SlugIsFilesystemSafe ==
    (last.via = "agent" /\ last.name = "generate_report") =>
        LET slug == Slug(last.args["topic"])
        IN  /\ slug = Lower(slug)
            /\ " " \notin Range(slug)
            /\ "/" \notin Range(slug)
            /\ ~Contains(<<".", ".">>, slug)
            /\ \A f \in reports : "/" \notin Range(f)

(***************************************************************************)
(* create_coralized_agent: the connection retry loop                       *)
(***************************************************************************)
max_retries == 5
retry_delay == 5

native_tools ==
    <<"web_search", "fetch_url", "track_competitor", "generate_report",
      "summarize_paper">>

\* What the environment may hold for CORAL_SSE_URL: unset, empty, a URL
\* without a query part, a URL with one.
EnvUrls == {None, <<>>, <<"h">>, <<"h", "?">>}

\* Python truthiness of an optional string: None and "" are false.
Truthy_NoneOnly(v) == v # None
Truthy(v) == v # None /\ v # <<>>

\* Lines 257-259: the query parameters are appended with "&" when the URL
\* already has a "?", with "?" otherwise.
BuildCoralUrl(url) ==
    IF Truthy(url)
    THEN url \o <<(IF "?" \in Range(url) THEN "&" ELSE "?")>> \o <<"agentId">>
    ELSE url

\* Names a remote endpoint may advertise; one of them is a built-in's name.
RemoteNames == {"list_agents", "send_message", "web_search"}

\* A tool catalog as the endpoint lists it: names distinct within the catalog.
Catalogs == {c \in SeqsUpTo(RemoteNames, MaxRemoteTools) : NoDuplicates(c)}

\* An entry of the history: a handshake attempt (with the catalog the endpoint
\* returned, when it succeeded) or a sleep.
Event(kind, catalog) == [kind |-> kind, catalog |-> catalog]

InitConnect ==
    /\ ToolsIdle
    /\ RaceIdle
    /\ MainIdle
    /\ env_url \in EnvUrls
    /\ coral_url = None
    /\ pc = "start"
    /\ attempt = 0
    /\ all_tools = <<>>
    /\ coral_client = None
    /\ prints = <<>>
    /\ events = <<>>
    /\ ret = <<>>
    /\ waited = 0

\* Lines 252-285 and 313-314: read the configuration, copy the native tools,
\* and either enter the retry loop or announce standalone mode.
ReadConfig ==
    /\ pc = "start"
    /\ coral_url' = BuildCoralUrl(env_url)
    /\ all_tools' = native_tools
    /\ coral_client' = None
    /\ IF Truthy(BuildCoralUrl(env_url))
       THEN /\ prints' = Append(prints, "connecting")
            /\ pc' = "attempt"
       ELSE /\ prints' = Append(prints, "standalone")
            /\ pc' = "build"
    /\ attempt' = 0
    /\ UNCHANGED <<env_url, events, ret, waited, toolvars, racevars, mainvars>>

\* all_tools.extend(coral_tools), line 302.
ExtendTools_Prepend(tools, coral_tools) == coral_tools \o tools
ExtendTools(tools, coral_tools) == tools \o coral_tools

\* Lines 288-305: the client is built, get_tools() returns the catalog, the
\* catalog is appended to all_tools and the loop is left with break.
HandshakeSucceeds ==
    /\ pc = "attempt"
    /\ \E catalog \in Catalogs :
          /\ all_tools' = ExtendTools(all_tools, catalog)
          /\ events' = Append(events, Event("attempt_ok", catalog))
    /\ coral_client' = Client
    /\ prints' = Append(prints, "connected")
    /\ pc' = "build"
    /\ UNCHANGED <<env_url, coral_url, attempt, ret, waited, toolvars,
                   racevars, mainvars>>

\* The test of line 309: another attempt follows this one.
HasNextAttempt_OffByOne(a) == a < max_retries - 2
HasNextAttempt(a) == a < max_retries - 1

\* Lines 288-312, the except branch.  The exception comes either from the
\* constructor (coral_client keeps its previous value) or from get_tools()
\* (coral_client was already assigned).  Nothing was appended to all_tools.
HandshakeFails ==
    /\ pc = "attempt"
    /\ \E ctor_ok \in BOOLEAN :
          coral_client' = IF ctor_ok THEN Client ELSE coral_client
    /\ events' = Append(events, Event("attempt_fail", <<>>))
    /\ IF HasNextAttempt(attempt)
       THEN /\ prints' = Append(prints, "failed")
            /\ pc' = "sleep"
       ELSE /\ prints' = prints \o <<"failed", "native_only">>
            /\ pc' = "build"
    /\ UNCHANGED <<env_url, coral_url, attempt, all_tools, ret, waited,
                   toolvars, racevars, mainvars>>

\* The argument of asyncio.sleep on line 310 after the failure of `a`: the
\* same retry_delay every time.
SleepSeconds_Exponential(a) == retry_delay * (2 ^ a)
SleepSeconds(a) == retry_delay

\* Line 310, then the next iteration of the for loop.
Sleep ==
    /\ pc = "sleep"
    /\ events' = Append(events, Event("sleep", <<>>))
    /\ waited' = waited + SleepSeconds(attempt)
    /\ attempt' = attempt + 1
    /\ pc' = "attempt"
    /\ UNCHANGED <<env_url, coral_url, all_tools, coral_client, prints, ret,
                   toolvars, racevars, mainvars>>

\* Lines 317-368: the executor is built over all_tools and returned together
\* with coral_client.
BuildExecutor ==
    /\ pc = "build"
    /\ ret' = <<all_tools, coral_client>>
    /\ pc' = "done"
    /\ UNCHANGED <<env_url, coral_url, attempt, all_tools, coral_client,
                   prints, events, waited, toolvars, racevars, mainvars>>

NextConnect ==
    \/ ReadConfig
    \/ HandshakeSucceeds
    \/ HandshakeFails
    \/ Sleep
    \/ BuildExecutor

SpecConnect == InitConnect /\ [][NextConnect]_vars

(***************************************************************************)
(* The connection outcome, read off what create_coralized_agent reports    *)
(***************************************************************************)
ConnectionState ==
    IF "connected" \in Range(prints) THEN "Connected"
    ELSE IF "native_only" \in Range(prints) THEN "Degraded"
    ELSE IF "standalone" \in Range(prints) THEN "Disconnected"
    ELSE IF "connecting" \in Range(prints) THEN "Connecting"
    ELSE "Disconnected"

CountKind(s, k) == Cardinality({i \in DOMAIN s : s[i].kind = k})

Attempts == CountKind(events, "attempt_ok") + CountKind(events, "attempt_fail")
Delays == CountKind(events, "sleep")
Succeeded == CountKind(events, "attempt_ok") > 0
Configured == Truthy(env_url)

\* The scheduler runs the coroutine to its end: every await returns.
FairConnect == SpecConnect /\ WF_vars(NextConnect)

(***************************************************************************)
(* Claims about the connection retry loop                                  *)
(***************************************************************************)

\* C1 (state part): with an endpoint configured and no handshake succeeding,
\* the loop never makes more than max_retries attempts, and once it is left
\* exactly max_retries attempts were made, the outcome is Degraded and the
\* tool list (also the one returned) is the native tools only.
C1_DegradedState ==
    /\ Attempts <= max_retries
    /\ (Configured /\ ~Succeeded /\ pc \in {"build", "done"}) =>
          /\ Attempts = max_retries
          /\ ConnectionState = "Degraded"
          /\ all_tools = native_tools
    /\ (Configured /\ ~Succeeded /\ pc = "done") => ret[1] = native_tools

\* C1: when an endpoint is configured and every handshake fails, connect makes
\* exactly max_retries (5) handshake attempts and then terminates, returning
\* normally in the Degraded outcome with the built-in tools only.
C1_AlwaysFailingEndsDegraded == []C1_DegradedState /\ <>(pc = "done")

C1_Witness ==
    /\ Configured /\ ~Succeeded /\ pc = "done"
    /\ Attempts = 5
    /\ ConnectionState = "Degraded"

\* C2: the first successful handshake is the last event of the loop (no later
\* attempt, no later delay), the outcome is Connected, and the tool list is
\* the native tools in their fixed order followed by the catalog in the order
\* the endpoint supplied it; until a handshake succeeds the list holds the
\* native tools only.
C2_FirstSuccessStopsAndAppends ==
    /\ \A i \in DOMAIN events :
          events[i].kind = "attempt_ok" =>
             /\ i = Len(events)
             /\ ConnectionState = "Connected"
             /\ all_tools = native_tools \o events[i].catalog
             /\ pc \in {"build", "done"}
             /\ pc = "done" => ret[1] = native_tools \o events[i].catalog
    /\ (~Succeeded /\ pc # "start") => all_tools = native_tools

C2_Witness ==
    /\ pc = "done"
    /\ Len(events) >= 3
    /\ events[1].kind = "attempt_fail"
    /\ events[Len(events)].kind = "attempt_ok"
    /\ events[Len(events)].catalog = <<"send_message", "list_agents">>
    /\ ret[1] = native_tools \o <<"send_message", "list_agents">>

\* C3: with no endpoint URL configured (unset or empty) connect makes no
\* handshake attempt and no delay, ends Disconnected (standalone), and the
\* tool list is exactly the native tools.
C3_NoEndpointIsStandalone ==
    (~(env_url # None /\ env_url # <<>>) /\ pc # "start") =>
        /\ events = <<>>
        /\ ConnectionState = "Disconnected"
        /\ "standalone" \in Range(prints)
        /\ all_tools = native_tools
        /\ pc = "done" => ret[1] = native_tools

C3_Witness ==
    /\ env_url = <<>>
    /\ pc = "done"
    /\ ret[1] = native_tools
    /\ events = <<>>

\* C4: the tool names in all_tools are pairwise distinct; a remote tool whose
\* name equals a native tool's name is not added to the list.
C4_ToolNamesUnique == NoDuplicates(all_tools)

(***************************************************************************)
(* Claims about the delays of the retry loop                               *)
(***************************************************************************)
IsAttempt(e) == e.kind \in {"attempt_ok", "attempt_fail"}

\* C12: a delay of retry_delay seconds occurs exactly once after each failed
\* attempt that is followed by another attempt, and nowhere else: never before
\* the first attempt, never after a successful attempt, never after the last
\* attempt.  Attempts and delays alternate, and the total wait is
\* retry_delay for each delay, at most max_retries x retry_delay.
C12_DelayOnlyBetweenAttempts ==
    /\ \A i \in 1..Len(events) :
          /\ events[i].kind = "sleep" =>
                /\ i > 1
                /\ events[i - 1].kind = "attempt_fail"
                /\ IF i < Len(events) THEN IsAttempt(events[i + 1])
                   ELSE pc = "attempt"
          /\ events[i].kind = "attempt_fail" =>
                IF i < Len(events) THEN events[i + 1].kind = "sleep"
                ELSE \/ pc = "sleep"
                     \/ pc \in {"build", "done"} /\ Attempts = max_retries
          /\ events[i].kind = "attempt_ok" => i = Len(events)
    /\ waited = Delays * retry_delay
    /\ waited <= max_retries * retry_delay
    /\ (pc \in {"build", "done"} /\ ~Succeeded /\ Configured) =>
          Delays = max_retries - 1

C12_Witness ==
    /\ pc = "done"
    /\ Configured /\ ~Succeeded
    /\ Attempts = 5
    /\ Delays = 4
    /\ waited = 20
    /\ events[Len(events)].kind = "attempt_fail"

(***************************************************************************)
(* main: the interactive loop (research_agent.py 371-435)                  *)
(***************************************************************************)
\* Line 422-423: the messages kept.
HistoryLimit == 20

\* Line 402: the words that end the session.
ExitCommands == {<<"e", "x", "i", "t">>, <<"q", "u", "i", "t">>, <<"q">>}

\* str.strip(): leading and trailing whitespace removed.
Whitespace == {" "}

RECURSIVE LStrip(_)
LStrip(s) ==
    IF s # <<>> /\ Head(s) \in Whitespace THEN LStrip(Tail(s)) ELSE s

RECURSIVE RStrip(_)
RStrip(s) ==
    IF s # <<>> /\ s[Len(s)] \in Whitespace
    THEN RStrip(SubSeq(s, 1, Len(s) - 1))
    ELSE s

Strip(s) == RStrip(LStrip(s))

\* The lines a user may type at the prompt once the agent has answered n
\* turns: a command, a blank line or a question.  The first question is one
\* of two, every later one is the same line.
TypedLines(n) ==
    ExitCommands \cup {<<" ", "Q", " ">>, <<>>, <<" ">>, <<" ", "a">>}
        \cup (IF n = 0 THEN {<<"q", "a">>} ELSE {})

\* What input() on line 400 may do.
InputOutcomes == {"line", "KeyboardInterrupt", "EOFError"}

HumanMessage(content) == [role |-> "human", content |-> content]
AIMessage(content) == [role |-> "ai", content |-> content]

\* result["output"] of the n-th answered turn: a text unlike every earlier one.
AgentOutput(n) == [i \in 1..n |-> "r"]

\* Lines 418-423: both messages appended, then the last 20 kept.
Remember(history, input, output) ==
    LET h == history \o <<HumanMessage(input), AIMessage(output)>>
    IN  IF Len(h) > HistoryLimit THEN SliceFrom(h, 0 - HistoryLimit) ELSE h

\* Lines 430-431: the handler prints and has no break, so the while loop
\* goes on with the next input().
AfterException_Break == "cleanup"
AfterException == "input"

\* Lines 381-396: create_coralized_agent has returned; the session begins.
StartMain ==
    /\ mpc = "idle"
    /\ pc = "done"
    /\ main_client' = ret[2]
    /\ chat_history' = <<>>
    /\ said' = "banner"
    /\ mpc' = "input"
    /\ UNCHANGED <<user_input, answered, history_before, typed, raised,
                   interrupted, closed, connvars, toolvars, racevars>>

\* Lines 400-409: one input() and the tests that follow it.
ReadInput ==
    /\ mpc = "input"
    /\ \E outcome \in InputOutcomes, line \in TypedLines(answered) :
          /\ history_before' = chat_history
          /\ raised' = FALSE
          /\ IF outcome = "KeyboardInterrupt"
             THEN /\ said' = "goodbye"
                  /\ interrupted' = TRUE
                  /\ mpc' = "cleanup"
                  /\ UNCHANGED <<user_input, typed>>
             ELSE IF outcome = "EOFError"
             THEN /\ said' = "error"
                  /\ mpc' = AfterException
                  /\ UNCHANGED <<user_input, typed, interrupted>>
             ELSE /\ typed' = line
                  /\ user_input' = Strip(line)
                  /\ UNCHANGED interrupted
                  /\ IF Lower(Strip(line)) \in ExitCommands
                     THEN said' = "goodbye" /\ mpc' = "cleanup"
                     ELSE IF ~Truthy(Strip(line))
                     THEN said' = said /\ mpc' = "input"
                     ELSE /\ answered < MaxTurns
                          /\ said' = "researching"
                          /\ mpc' = "invoke"
    /\ UNCHANGED <<main_client, chat_history, answered, closed, connvars,
                   toolvars, racevars>>

\* Lines 412-425: executor.ainvoke returned.
AgentReturns ==
    /\ mpc = "invoke"
    /\ chat_history' =
          Remember(chat_history, user_input, AgentOutput(answered + 1))
    /\ answered' = answered + 1
    /\ said' = "agent"
    /\ mpc' = "input"
    /\ UNCHANGED <<main_client, user_input, history_before, typed, raised,
                   interrupted, closed, connvars, toolvars, racevars>>

\* Lines 412-415 and 430-431: executor.ainvoke raised an Exception.
AgentRaises ==
    /\ mpc = "invoke"
    /\ raised' = TRUE
    /\ said' = "error"
    /\ mpc' = AfterException
    /\ UNCHANGED <<main_client, chat_history, user_input, answered,
                   history_before, typed, interrupted, closed, connvars,
                   toolvars, racevars>>

\* Ctrl-C while executor.ainvoke is awaited.  It reaches the try block as
\* KeyboardInterrupt (lines 427-429), or it cancels main's task and the
\* CancelledError, which no handler of the loop catches, leaves main.
AgentInterrupted ==
    /\ mpc = "invoke"
    /\ interrupted' = TRUE
    /\ \E caught \in BOOLEAN :
          IF caught THEN said' = "goodbye" /\ mpc' = "cleanup"
          ELSE said' = said /\ mpc' = "exited"
    /\ UNCHANGED <<main_client, chat_history, user_input, answered,
                   history_before, typed, raised, closed, connvars, toolvars,
                   racevars>>

\* Lines 433-435.
Cleanup ==
    /\ mpc = "cleanup"
    /\ closed' = (main_client # None)
    /\ mpc' = "exited"
    /\ UNCHANGED <<main_client, chat_history, user_input, said, answered,
                   history_before, typed, raised, interrupted, connvars,
                   toolvars, racevars>>

NextMain ==
    \/ StartMain
    \/ ReadInput
    \/ AgentReturns
    \/ AgentRaises
    \/ AgentInterrupted
    \/ Cleanup

\* main from its first line: create_coralized_agent, then the session.
SpecMain == InitConnect /\ [][NextConnect \/ NextMain]_vars

(***************************************************************************)
(* Claims about main                                                       *)
(***************************************************************************)
LoopEnded == mpc \in {"cleanup", "exited"}

\* C11: a turn whose agent execution raises an error does not end the session:
\* the error is reported, chat_history is as it was before the turn, and the
\* loop is back at waiting for input; the loop has ended only after an
\* exit/quit/q command or an interrupt.
C11_ErrorKeepsSessionAndHistory ==
    /\ raised =>
          /\ said = "error"
          /\ chat_history = history_before
          /\ mpc = "input"
    /\ LoopEnded =>
          \/ interrupted
          \/ Lower(Strip(typed)) \in ExitCommands

C11_Witness ==
    /\ raised
    /\ mpc = "input"
    /\ chat_history # <<>>
    /\ answered = 1

\* C13: the client handle create_coralized_agent returns is not None exactly
\* when the connection ended Connected; in the Disconnected and Degraded
\* outcomes it is None, so main's cleanup closes a client only when one was
\* connected.
C13_ClientIffConnected ==
    /\ pc = "done" => (ret[2] # None <=> ConnectionState = "Connected")
    /\ closed => ConnectionState = "Connected"

=============================================================================
